---- MODULE Spec2Model ----
(***************************************************************************)
(* Model of ai_models_blockchain.py: the PredictModel factory, the neural  *)
(* network variants (RNN, GRU, LSTM, MLP), their windowing, the training   *)
(* loop of BaseNN and the save/get bridge to the ledger (dataManager) and  *)
(* to parameter storage (torch.save / torch.load).                         *)
(*                                                                         *)
(* Python strings that the code converts or compares (architecture, loss   *)
(* and optimizer names) are sequences of one-character strings, so that    *)
(* str.lower() is computed character by character.  Python dicts are       *)
(* functions from key strings to values.  An exception raised by the code  *)
(* is the "err" field of an operation's outcome.                           *)
(***************************************************************************)
EXTENDS Integers, Sequences, FiniteSets, TLC

VARIABLES
    made,         \* a PredictModel.create call: its arguments and its outcome
    win,          \* outcome of the most recent preprocess_data call on made
    tr,           \* the train_model call in progress (or finished)
    database,     \* dataManager.database: model name -> record under "<MODEL>"+name
    storage,      \* files under models/: model name -> state dict at "models/"+name
    datasets,     \* dataset names datasets.load_dataset can resolve
    pc,           \* per caller: position inside save_trained_model
    job,          \* per caller: arguments and locals of its save_trained_model call
    ret,          \* outcome of the most recent get_trained_model / save_trained_model call
    wroteParams,  \* history: per model name, the save call that last wrote models/<name>
    wroteLedger   \* history: per model name, the save call that last set the ledger record

vars == <<made, win, tr, database, storage, datasets, pc, job, ret, wroteParams, wroteLedger>>

factoryVars == <<made, win>>
persistVars == <<database, storage, datasets, pc, job, ret, wroteParams, wroteLedger>>

(***************************************************************************)
(* Bounds of the model.                                                    *)
(***************************************************************************)
MaxLag == 2
MaxLookback == 3
MaxRows == 6
MaxHidden == 2
NumCols == 2

None == [none |-> TRUE]

(***************************************************************************)
(* Python helpers.                                                         *)
(***************************************************************************)

\* str.lower() on one character
LowerChar(c) ==
    CASE c = "A" -> "a" [] c = "B" -> "b" [] c = "C" -> "c" [] c = "D" -> "d"
      [] c = "E" -> "e" [] c = "F" -> "f" [] c = "G" -> "g" [] c = "H" -> "h"
      [] c = "I" -> "i" [] c = "J" -> "j" [] c = "K" -> "k" [] c = "L" -> "l"
      [] c = "M" -> "m" [] c = "N" -> "n" [] c = "O" -> "o" [] c = "P" -> "p"
      [] c = "Q" -> "q" [] c = "R" -> "r" [] c = "S" -> "s" [] c = "T" -> "t"
      [] c = "U" -> "u" [] c = "V" -> "v" [] c = "W" -> "w" [] c = "X" -> "x"
      [] c = "Y" -> "y" [] c = "Z" -> "z" [] OTHER -> c

\* str.lower()
Lower(s) == [i \in 1..Len(s) |-> LowerChar(s[i])]

\* str.upper() on one character, used only to enumerate letter cases of inputs
UpperChar(c) ==
    CASE c = "a" -> "A" [] c = "c" -> "C" [] c = "d" -> "D" [] c = "e" -> "E"
      [] c = "g" -> "G" [] c = "l" -> "L" [] c = "m" -> "M" [] c = "n" -> "N"
      [] c = "p" -> "P" [] c = "r" -> "R" [] c = "s" -> "S" [] c = "t" -> "T"
      [] c = "u" -> "U" [] OTHER -> c

\* every spelling of s that differs from it in letter case only
CaseVariants(s) ==
    { t \in [1..Len(s) -> {LowerChar(s[i]) : i \in 1..Len(s)}
                          \cup {UpperChar(LowerChar(s[i])) : i \in 1..Len(s)}] :
        \A i \in 1..Len(s) : LowerChar(t[i]) = LowerChar(s[i]) }

\* {**a, **b}
Merge(a, b) == [k \in (DOMAIN a) \cup (DOMAIN b) |-> IF k \in DOMAIN b THEN b[k] ELSE a[k]]

\* d.pop(k) for a key that is present: the dict without k
Pop(d, k) == [z \in (DOMAIN d) \ {k} |-> d[z]]

\* d.get(k, dflt); also the binding of a keyword parameter with a default
Get(d, k, dflt) == IF k \in DOMAIN d THEN d[k] ELSE dflt

\* a slice bound as Python normalises it for a sequence of length n
Clip(i, n) == IF i < 0 THEN (IF i + n < 0 THEN 0 ELSE i + n) ELSE (IF i > n THEN n ELSE i)

\* s[a:b] with 0-based Python bounds (negative bounds count from the end)
PySlice(s, a, b) == SubSeq(s, Clip(a, Len(s)) + 1, Clip(b, Len(s)))

\* s[a:]
PyFrom(s, a) == SubSeq(s, Clip(a, Len(s)) + 1, Len(s))

\* len(range(k))
RangeLen(k) == IF k < 0 THEN 0 ELSE k

(***************************************************************************)
(* Names.                                                                  *)
(***************************************************************************)
S_RNN == <<"R", "N", "N">>
S_GRU == <<"G", "R", "U">>
S_LSTM == <<"L", "S", "T", "M">>
S_MLP == <<"M", "L", "P">>
S_BaseNN == <<"B", "a", "s", "e", "N", "N">>
S_mae == <<"m", "a", "e">>
S_l1 == <<"l", "1">>
S_mse == <<"m", "s", "e">>
S_l2 == <<"l", "2">>
S_ce == <<"c", "e">>
S_crossentropy == <<"c", "r", "o", "s", "s", "e", "n", "t", "r", "o", "p", "y">>
S_adam == <<"a", "d", "a", "m">>
S_sgd == <<"s", "g", "d">>

(***************************************************************************)
(* The class hierarchy under PredictModel: class name, declared            *)
(* BASE_MODEL_NAME (BaseNN inherits the empty one) and direct subclasses   *)
(* in definition order.                                                    *)
(***************************************************************************)
Classes ==
    [PredictModel |-> [name |-> <<"P","r","e","d","i","c","t","M","o","d","e","l">>,
                       BASE_MODEL_NAME |-> <<>>, subs |-> <<"BaseNN">>],
     BaseNN |-> [name |-> S_BaseNN, BASE_MODEL_NAME |-> <<>>, subs |-> <<"RNN", "MLP">>],
     RNN |-> [name |-> S_RNN, BASE_MODEL_NAME |-> S_RNN, subs |-> <<"GRU", "LSTM">>],
     GRU |-> [name |-> S_GRU, BASE_MODEL_NAME |-> S_GRU, subs |-> <<>>],
     LSTM |-> [name |-> S_LSTM, BASE_MODEL_NAME |-> S_LSTM, subs |-> <<>>],
     MLP |-> [name |-> S_MLP, BASE_MODEL_NAME |-> S_MLP, subs |-> <<>>]]

RECURSIVE Concat(_)
Concat(ss) == IF ss = <<>> THEN <<>> ELSE Head(ss) \o Concat(Tail(ss))

\* PredictModel.subclass_walk: the direct subclasses, then each one's own walk
RECURSIVE subclass_walk(_)
subclass_walk(target_cls) ==
    LET subs == Classes[target_cls].subs
    IN  subs \o Concat([i \in 1..Len(subs) |-> subclass_walk(subs[i])])

(***************************************************************************)
(* Dataset handles: dataframe is the sequence of rows, a row the sequence  *)
(* of its column values; the value in row r, column c is 10*r + c.         *)
(***************************************************************************)
Frame(n) == [r \in 1..n |-> [c \in 1..NumCols |-> 10 * r + c]]

Handler(ds_name, n) == [dataset_name |-> ds_name, dataframe |-> Frame(n)]

\* len(data_handler.dataframe.columns)
NumColumns(data_handler) == NumCols

(***************************************************************************)
(* Construction.  An instance is a record; a constructor that raises       *)
(* yields the object as it was when the exception left __init__.           *)
(***************************************************************************)

\* the object before any __init__ code has run
Blank(cls) ==
    [err |-> "none", cls |-> cls, BASE_MODEL_NAME |-> Classes[cls].BASE_MODEL_NAME,
     inited |-> FALSE, model_name |-> None, data_handler |-> None,
     loss_fn_name |-> None, kwargs |-> <<>>, input_size |-> 0, modules |-> {},
     dropout |-> 0, params |-> 0]

\* utils.flatten_locals(locals()), a helper imported from common.utils: the
\* named locals other than self, with the entries of the local kwargs dict
\* merged in (preprocess_data reads kwargs["training_lookback"] from the
\* result, save_trained_model pops "data_handler" from it and
\* get_trained_model looks for "model_name" in it)
flatten_locals(named, kwargs) == Merge(named, kwargs)

\* PredictModel.init
init(self, model_name, data_handler, loss_fn_name, kwargs) ==
    [self EXCEPT !.inited = TRUE,
                 !.model_name = model_name,
                 !.data_handler = data_handler,
                 !.loss_fn_name = loss_fn_name,
                 !.kwargs = flatten_locals([model_name |-> model_name,
                                            data_handler |-> data_handler,
                                            loss_fn_name |-> loss_fn_name], kwargs)]

\* BaseNN.__init__
BaseNN_init(self, model_name, data_handler, hidden_dim, num_hidden_layers, loss_fn_name, kwargs) ==
    LET s1 == [self EXCEPT !.input_size = NumColumns(data_handler)]
        local_args == flatten_locals([model_name |-> model_name,
                                      data_handler |-> data_handler,
                                      hidden_dim |-> hidden_dim,
                                      num_hidden_layers |-> num_hidden_layers,
                                      loss_fn_name |-> loss_fn_name], kwargs)
    IN  init(s1, local_args.model_name, local_args.data_handler, local_args.loss_fn_name,
             Pop(Pop(Pop(local_args, "model_name"), "data_handler"), "loss_fn_name"))

\* a variant of RNN.__init__ that accepts training_lookback = time_lag
RNN_init_Lenient(self, model_name, data_handler, hidden_dim, num_hidden_layers, loss_fn_name, time_lag, training_lookback) ==
    IF training_lookback < time_lag
    THEN [self EXCEPT !.err = "ValueError"]
    ELSE [BaseNN_init(self, model_name, data_handler, hidden_dim, num_hidden_layers,
                      loss_fn_name,
                      [time_lag |-> time_lag, training_lookback |-> training_lookback])
            EXCEPT !.modules = @ \cup {"rnn", "fc"}]

\* RNN.__init__ (the extra keyword arguments **_ are dropped)
RNN_init(self, model_name, data_handler, hidden_dim, num_hidden_layers, loss_fn_name, time_lag, training_lookback) ==
    IF training_lookback <= time_lag
    THEN [self EXCEPT !.err = "ValueError"]
    ELSE LET s1 == BaseNN_init(self, model_name, data_handler, hidden_dim, num_hidden_layers,
                               loss_fn_name,
                               [time_lag |-> time_lag, training_lookback |-> training_lookback])
         IN  [s1 EXCEPT !.modules = @ \cup {"rnn", "fc"}]

\* GRU.__init__
GRU_init(self, model_name, data_handler, hidden_dim, num_hidden_layers, loss_fn_name, time_lag, training_lookback, drop_prob) ==
    LET s1 == RNN_init(self, model_name, data_handler, hidden_dim, num_hidden_layers,
                       loss_fn_name, time_lag, training_lookback)
    IN  IF s1.err # "none" THEN s1
        ELSE [s1 EXCEPT !.modules = @ \cup {"gru", "fc", "relu"}, !.dropout = drop_prob]

\* LSTM.__init__
LSTM_init(self, model_name, data_handler, hidden_dim, num_hidden_layers, loss_fn_name, time_lag, training_lookback, drop_prob) ==
    LET s1 == RNN_init(self, model_name, data_handler, hidden_dim, num_hidden_layers,
                       loss_fn_name, time_lag, training_lookback)
    IN  IF s1.err # "none" THEN s1
        ELSE [s1 EXCEPT !.modules = @ \cup {"lstm", "fc", "relu"}, !.dropout = drop_prob]

\* MLP.__init__
MLP_init(self, model_name, data_handler, hidden_dim, num_hidden_layers, loss_fn_name) ==
    LET s1 == BaseNN_init(self, model_name, data_handler, hidden_dim, num_hidden_layers,
                          loss_fn_name, <<>>)
    IN  [s1 EXCEPT !.modules = @ \cup {"seq"}]

\* sub(trained_model, data_handler, loss_fn_name=loss_fn_name, **kwargs): the
\* call binds the keyword arguments to the parameters of sub.__init__; a
\* required parameter left out, or one given both by position and by keyword,
\* is a TypeError
Construct(cls, trained_model, data_handler, loss_fn_name, kwargs) ==
    IF \/ ~ ({"hidden_dim", "num_hidden_layers"} \subseteq DOMAIN kwargs)
       \/ (DOMAIN kwargs) \cap {"model_name", "data_handler", "loss_fn_name"} # {}
    THEN [Blank(cls) EXCEPT !.err = "TypeError"]
    ELSE CASE cls = "RNN" ->
                RNN_init(Blank(cls), trained_model, data_handler, kwargs.hidden_dim,
                         kwargs.num_hidden_layers, loss_fn_name,
                         Get(kwargs, "time_lag", 1), Get(kwargs, "training_lookback", 2))
           [] cls = "GRU" ->
                GRU_init(Blank(cls), trained_model, data_handler, kwargs.hidden_dim,
                         kwargs.num_hidden_layers, loss_fn_name,
                         Get(kwargs, "time_lag", 1), Get(kwargs, "training_lookback", 2),
                         Get(kwargs, "drop_prob", 0))
           [] cls = "LSTM" ->
                LSTM_init(Blank(cls), trained_model, data_handler, kwargs.hidden_dim,
                          kwargs.num_hidden_layers, loss_fn_name,
                          Get(kwargs, "time_lag", 1), Get(kwargs, "training_lookback", 2),
                          Get(kwargs, "drop_prob", 0))
           [] cls = "MLP" ->
                MLP_init(Blank(cls), trained_model, data_handler, kwargs.hidden_dim,
                         kwargs.num_hidden_layers, loss_fn_name)
           [] OTHER ->
                BaseNN_init(Blank(cls), trained_model, data_handler, kwargs.hidden_dim,
                            kwargs.num_hidden_layers, loss_fn_name,
                            Pop(Pop(kwargs, "hidden_dim"), "num_hidden_layers"))

\* the test of PredictModel.create's loop for one subclass
Matches(sub, raw_model) ==
    \/ Classes[sub].name = raw_model
    \/ Lower(Classes[sub].BASE_MODEL_NAME) = Lower(raw_model)

\* PredictModel.create: the first matching subclass of the walk is
\* constructed; when the loop ends without a match the function returns None
create(raw_model, trained_model, data_handler, loss_fn_name, kwargs) ==
    LET walk == subclass_walk("PredictModel")
        hits == {i \in 1..Len(walk) : Matches(walk[i], raw_model)}
    IN  IF hits = {}
        THEN [raised |-> "none", value |-> None]
        ELSE LET first == CHOOSE i \in hits : \A j \in hits : i <= j
                 obj == Construct(walk[first], trained_model, data_handler, loss_fn_name, kwargs)
             IN  IF obj.err # "none"
                 THEN [raised |-> obj.err, value |-> obj]
                 ELSE [raised |-> "none", value |-> obj]

(***************************************************************************)
(* Windowing.                                                              *)
(***************************************************************************)

\* dataframe.columns.get_loc(target_attrib): columns are named by position
get_loc(data_handler, target_attrib) == target_attrib

\* a variant of TrainLen that rounds to the nearest integer instead of truncating
TrainLen_Rounded(count) == (8 * count + 5) \div 10

\* int(0.8 * len(time_series))
TrainLen(count) == (8 * count) \div 10

\* rows[:, idx] of a window: the values of one column
Column(rows, idx) == [i \in 1..Len(rows) |-> rows[i][idx]]

\* the outcome of preprocess_data once the windows are cut: numpy refuses the
\* three-index slice of the one-dimensional array made from an empty list
Split(time_series, x_of, y_of) ==
    LET train_len == TrainLen(Len(time_series))
        x == [i \in 1..Len(time_series) |-> x_of[i]]
        y == [i \in 1..Len(time_series) |-> y_of[i]]
    IN  IF Len(time_series) = 0
        THEN [err |-> "IndexError", x_train |-> <<>>, y_train |-> <<>>,
              x_test |-> <<>>, y_test |-> <<>>]
        ELSE [err |-> "none",
              x_train |-> PySlice(x, 0, train_len), y_train |-> PySlice(y, 0, train_len),
              x_test |-> PyFrom(x, train_len), y_test |-> PyFrom(y, train_len)]

\* RNN.preprocess_data (inherited by GRU and LSTM), sub_split_value = None
RNN_preprocess_data(self, target_attrib) ==
    LET selected_data == self.data_handler.dataframe
        lookback == self.kwargs.training_lookback
        time_series == [index \in 1..RangeLen(Len(selected_data) - lookback) |->
                           PySlice(selected_data, index - 1, index - 1 + lookback)]
        output_window == lookback - self.kwargs.time_lag
        target_attrib_idx == get_loc(self.data_handler, target_attrib)
    IN  Split(time_series,
              time_series,
              [i \in 1..Len(time_series) |->
                  Column(PyFrom(time_series[i], 0 - output_window), target_attrib_idx)])

\* MLP.preprocess_data, sub_split_value = None
MLP_preprocess_data(self, target_attrib) ==
    LET selected_data == self.data_handler.dataframe
        time_series == [index \in 1..RangeLen(Len(selected_data) - 2) |->
                           PySlice(selected_data, index - 1, index - 1 + 2)]
        target_attrib_idx == get_loc(self.data_handler, target_attrib)
    IN  Split(time_series,
              [i \in 1..Len(time_series) |-> PySlice(time_series[i], 0, 0 - 1)],
              [i \in 1..Len(time_series) |->
                  Column(PyFrom(time_series[i], 0 - 1), target_attrib_idx)])

\* self.preprocess_data(target_attrib=...), dispatched on the class
preprocess_data(self, target_attrib) ==
    IF self.cls = "MLP" THEN MLP_preprocess_data(self, target_attrib)
    ELSE RNN_preprocess_data(self, target_attrib)

Recurrent == {"RNN", "GRU", "LSTM"}
Variants == Recurrent \cup {"MLP"}

(***************************************************************************)
(* Inputs of the factory specification.                                    *)
(***************************************************************************)
VariantNames == {S_RNN, S_GRU, S_LSTM, S_MLP}

\* the supported identifiers in every letter case, and identifiers that name
\* no variant
RawModels ==
    UNION {CaseVariants(s) : s \in VariantNames}
    \cup {<<>>, S_BaseNN, <<"C", "N", "N">>, <<"R", "N">>, <<"L", "S", "T", "M", "s">>}

LossInputs == {S_mae, <<"h", "u", "b", "e", "r">>}

Lags == (0 - 1)..MaxLag
Lookbacks == (0 - 1)..MaxLookback

\* the keyword arguments of a create call: time_lag, training_lookback and
\* drop_prob may each be left out; drop_prob is counted in tenths (5 is 0.5)
KwargSets ==
    { Merge(Merge([hidden_dim |-> h, num_hidden_layers |-> 1], a), Merge(b, c)) :
        h \in 1..MaxHidden,
        a \in {<<>>} \cup {[time_lag |-> l] : l \in Lags},
        b \in {<<>>} \cup {[training_lookback |-> w] : w \in Lookbacks},
        c \in {<<>>, [drop_prob |-> 5]} }

(***************************************************************************)
(* Factory specification: create a model, then window its dataset.        *)
(***************************************************************************)
ModelNames == {"m1", "m2"}
DatasetNames == {"d1", "d2"}
Callers == {1, 2}

\* a variant of save_key that leaves the model name out of the ledger key
save_key_Shared(model_name) == "<MODEL>" \o "m1"

\* the ledger key "<MODEL>" + model_name
save_key(model_name) == "<MODEL>" \o model_name

\* a variant of save_location that leaves the model name out of the path
save_location_Shared(model_name) == "models/" \o "m1"

\* save_location = f"models/{model.model_name}"
save_location(model_name) == "models/" \o model_name

Keys == {"<MODEL>" \o n : n \in ModelNames}
Locations == {"models/" \o n : n \in ModelNames}

\* ledger, storage and callers when nothing has been saved
IdlePersist ==
    /\ database = [k \in Keys |-> None]
    /\ storage = [l \in Locations |-> None]
    /\ pc = [c \in Callers |-> "idle"]
    /\ ret = None
    /\ wroteParams = [n \in ModelNames |-> 0]
    /\ wroteLedger = [n \in ModelNames |-> 0]

InitPersist ==
    /\ IdlePersist
    /\ datasets = {}
    /\ job = [c \in Callers |-> None]

InitModel ==
    /\ \E raw_model \in RawModels, n \in 0..MaxRows, loss_fn_name \in LossInputs,
          kwargs \in KwargSets :
          made = [raw_model |-> raw_model, data_handler |-> Handler("d1", n),
                  loss_fn_name |-> loss_fn_name, kwargs |-> kwargs, out |-> None]
    /\ win = None
    /\ tr = None
    /\ InitPersist

\* the caller's PredictModel.create call returns (or raises)
Create ==
    /\ made.out = None
    /\ made' = [made EXCEPT !.out = create(made.raw_model, "m1", made.data_handler,
                                           made.loss_fn_name, made.kwargs)]
    /\ UNCHANGED <<win, tr, persistVars>>

\* the caller invokes preprocess_data on the instance create returned
PreprocessData ==
    /\ made.out # None
    /\ made.out.raised = "none"
    /\ made.out.value # None
    /\ made.out.value.cls \in Variants
    /\ \E target_attrib \in 1..NumCols :
        win' = Merge([target_attrib |-> target_attrib],
                     preprocess_data(made.out.value, target_attrib))
    /\ UNCHANGED <<made, tr, persistVars>>

NextModel == Create \/ PreprocessData

SpecModel == InitModel /\ [][NextModel]_vars

(***************************************************************************)
(* Training and evaluation.                                                *)
(***************************************************************************)
MaxEpochs == 41

\* a variant of get_loss_fn that falls back to the L1 loss for unknown names
get_loss_fn_Fallback(name) ==
    IF Lower(name) \in {S_l2, S_mse} THEN [torch |-> "MSELoss"]
    ELSE IF Lower(name) \in {S_ce, S_crossentropy} THEN [torch |-> "CrossEntropyLoss"]
    ELSE [torch |-> "L1Loss"]

\* PredictModel.get_loss_fn: falls off the end (returns None) for other names
get_loss_fn(name) ==
    IF Lower(name) \in {S_l1, S_mae} THEN [torch |-> "L1Loss"]
    ELSE IF Lower(name) \in {S_l2, S_mse} THEN [torch |-> "MSELoss"]
    ELSE IF Lower(name) \in {S_ce, S_crossentropy} THEN [torch |-> "CrossEntropyLoss"]
    ELSE None

\* PredictModel.get_optimizer: falls off the end (returns None) for other names
get_optimizer(name) ==
    IF Lower(name) = S_adam THEN [torch |-> "Adam"]
    ELSE IF Lower(name) = S_sgd THEN [torch |-> "SGD"]
    ELSE None

\* len(query_model(input_sequence)): forward gives one output row per input
\* row; RNN and LSTM keep output[:, -1], GRU output[time_lag:, 0], MLP output[0]
query_len(self, input_sequence) ==
    CASE self.cls = "GRU" ->
            Len(PyFrom(input_sequence, self.kwargs.time_lag))
      [] self.cls = "MLP" -> 1
      [] OTHER -> Len(input_sequence)

\* loss_fn(output, target): calling None is a TypeError; the torch losses
\* need the two lengths equal or one of them 1
loss_err(loss_fn, output_len, target_len) ==
    IF loss_fn = None THEN "TypeError"
    ELSE IF output_len = target_len \/ output_len = 1 \/ target_len = 1 THEN "none"
    ELSE "RuntimeError"

\* the first error of the loss calls over the windows xs with targets ys
RECURSIVE first_loss_err(_, _, _, _)
first_loss_err(self, loss_fn, xs, ys) ==
    IF xs = <<>> THEN "none"
    ELSE LET e == loss_err(loss_fn, query_len(self, Head(xs)), Len(Head(ys)))
         IN  IF e # "none" THEN e ELSE first_loss_err(self, loss_fn, Tail(xs), Tail(ys))

\* BaseNN.eval_model with plot_eval = True: err, and the (accuracy, loss) pair
\* as the parameters and evaluation windows it was computed from
eval_model(self, target_attrib) ==
    LET loss_fn == get_loss_fn(self.loss_fn_name)
        data == preprocess_data(self, target_attrib)
        e == first_loss_err(self, loss_fn, data.x_test, data.y_test)
    IN  IF data.err # "none" THEN [err |-> data.err, value |-> None]
        ELSE IF e # "none" THEN [err |-> e, value |-> None]
        ELSE IF Len(data.x_test) = 0 THEN [err |-> "IndexError", value |-> None]
        ELSE [err |-> "none",
              value |-> [params |-> self.params, total_entries |-> Len(data.x_test)]]

\* a variant of EvalDue that counts completed epochs
EvalDue_Completed(epoch) == (epoch + 1) % 20 = 0

\* the test "epoch % 20 == 0" at the end of an epoch of train_model
EvalDue(epoch) == epoch % 20 = 0

(***************************************************************************)
(* Training specification: construct one model, then run train_model.     *)
(***************************************************************************)
TrainLossInputs == {S_mae, <<"M", "S", "E">>, <<"h", "u", "b", "e", "r">>}
TrainOptimizerInputs == {S_adam, <<"S", "G", "D">>, <<"r", "m", "s">>}
TrainKwargSets == {[hidden_dim |-> 1, num_hidden_layers |-> 1],
                   [hidden_dim |-> 1, num_hidden_layers |-> 1, training_lookback |-> 3]}

InitTrain ==
    /\ \E raw_model \in VariantNames, n \in 0..MaxRows, loss_fn_name \in TrainLossInputs,
          kwargs \in TrainKwargSets, num_epochs \in 0..MaxEpochs,
          optimizer_name \in TrainOptimizerInputs :
          tr = [raw_model |-> raw_model, data_handler |-> Handler("d1", n),
                loss_fn_name |-> loss_fn_name, kwargs |-> kwargs,
                num_epochs |-> num_epochs, optimizer_name |-> optimizer_name,
                target_attrib |-> 1,
                pc |-> "new", self |-> None, loss_fn |-> None, data |-> None,
                epoch |-> 0, idx |-> 1, updates |-> 0, evals |-> <<>>,
                err |-> "none", at |-> "none", result |-> None]
    /\ made = None
    /\ win = None
    /\ InitPersist

\* the caller constructs the model through PredictModel.create
TrainConstruct ==
    /\ tr.pc = "new"
    /\ LET out == create(tr.raw_model, "m1", tr.data_handler, tr.loss_fn_name, tr.kwargs)
       IN  tr' = [tr EXCEPT !.self = out.value,
                            !.pc = IF out.raised = "none" THEN "ready" ELSE "raised",
                            !.err = out.raised,
                            !.at = IF out.raised = "none" THEN "none" ELSE "create"]
    /\ UNCHANGED <<factoryVars, persistVars>>

\* train_model up to the first epoch: loss function, optimizer, windows
TrainBegin ==
    /\ tr.pc = "ready"
    /\ LET loss_fn == get_loss_fn(tr.self.loss_fn_name)
           optimizer == get_optimizer(tr.optimizer_name)
           data == preprocess_data(tr.self, tr.target_attrib)
       IN  IF optimizer = None
           THEN tr' = [tr EXCEPT !.loss_fn = loss_fn, !.pc = "raised",
                                 !.err = "TypeError", !.at = "get_optimizer"]
           ELSE IF data.err # "none"
           THEN tr' = [tr EXCEPT !.loss_fn = loss_fn, !.data = data, !.pc = "raised",
                                 !.err = data.err, !.at = "preprocess_data"]
           ELSE tr' = [tr EXCEPT !.loss_fn = loss_fn, !.data = data,
                                 !.pc = IF tr.num_epochs > 0 THEN "epoch" ELSE "final"]
    /\ UNCHANGED <<factoryVars, persistVars>>

\* a variant of TrainWindow whose optimizer step sits after the inner loop:
\* only the last window of an epoch updates the parameters
TrainWindow_StepPerEpoch ==
    /\ tr.pc = "epoch"
    /\ tr.idx <= Len(tr.data.x_train)
    /\ LET e == loss_err(tr.loss_fn, query_len(tr.self, tr.data.x_train[tr.idx]),
                         Len(tr.data.y_train[tr.idx]))
           step == IF tr.idx = Len(tr.data.x_train) THEN 1 ELSE 0
       IN  IF e # "none"
           THEN tr' = [tr EXCEPT !.pc = "raised", !.err = e, !.at = "train_model"]
           ELSE tr' = [tr EXCEPT !.self.params = @ + step, !.updates = @ + step,
                                 !.idx = @ + 1]
    /\ UNCHANGED <<factoryVars, persistVars>>

\* one iteration of the inner loop: query, loss, backward pass, optimizer step
TrainWindow ==
    /\ tr.pc = "epoch"
    /\ tr.idx <= Len(tr.data.x_train)
    /\ LET e == loss_err(tr.loss_fn, query_len(tr.self, tr.data.x_train[tr.idx]),
                         Len(tr.data.y_train[tr.idx]))
       IN  IF e # "none"
           THEN tr' = [tr EXCEPT !.pc = "raised", !.err = e, !.at = "train_model"]
           ELSE tr' = [tr EXCEPT !.self.params = @ + 1, !.updates = @ + 1, !.idx = @ + 1]
    /\ UNCHANGED <<factoryVars, persistVars>>

\* the end of an epoch: the evaluation when it is due, then the next epoch
TrainEpochEnd ==
    /\ tr.pc = "epoch"
    /\ tr.idx > Len(tr.data.x_train)
    /\ LET ev == eval_model(tr.self, tr.target_attrib)
           next == IF tr.epoch + 1 < tr.num_epochs THEN "epoch" ELSE "final"
       IN  IF ~ EvalDue(tr.epoch)
           THEN tr' = [tr EXCEPT !.epoch = @ + 1, !.idx = 1, !.pc = next]
           ELSE IF ev.err # "none"
           THEN tr' = [tr EXCEPT !.pc = "raised", !.err = ev.err, !.at = "eval_model"]
           ELSE tr' = [tr EXCEPT !.epoch = @ + 1, !.idx = 1, !.pc = next,
                                 !.evals = Append(@, [after |-> tr.epoch + 1,
                                                      value |-> ev.value])]
    /\ UNCHANGED <<factoryVars, persistVars>>

\* after the loop: the last evaluation, whose result train_model returns
TrainReturn ==
    /\ tr.pc = "final"
    /\ LET ev == eval_model(tr.self, tr.target_attrib)
       IN  IF ev.err # "none"
           THEN tr' = [tr EXCEPT !.pc = "raised", !.err = ev.err, !.at = "eval_model"]
           ELSE tr' = [tr EXCEPT !.pc = "done", !.result = ev.value,
                                 !.evals = Append(@, [after |-> tr.epoch,
                                                      value |-> ev.value])]
    /\ UNCHANGED <<factoryVars, persistVars>>

NextTrain == TrainConstruct \/ TrainBegin \/ TrainWindow \/ TrainEpochEnd \/ TrainReturn

SpecTrain == InitTrain /\ [][NextTrain]_vars

(***************************************************************************)
(* Properties of the factory and the windowing (SpecModel).             *)
(***************************************************************************)
LowerVariantNames == {Lower(s) : s \in VariantNames}

\* the time_lag and training_lookback a constructor call is bound to
EffLag(kwargs) == Get(kwargs, "time_lag", 1)
EffLookback(kwargs) == Get(kwargs, "training_lookback", 2)

\* C1: create with one of the four identifiers RNN, GRU, LSTM, MLP in any
\* letter case returns an instance whose BASE_MODEL_NAME is that identifier,
\* and create with an identifier of no registered variant fails with a
\* NotFound error instead of returning a value.
C1_CreateFindsOrFails ==
    (made.out # None /\ EffLookback(made.kwargs) > EffLag(made.kwargs)) =>
        IF Lower(made.raw_model) \in LowerVariantNames
        THEN /\ made.out.raised = "none"
             /\ made.out.value # None
             /\ Lower(made.out.value.BASE_MODEL_NAME) = Lower(made.raw_model)
        ELSE made.out.raised = "NotFound"

\* the part of C1 the code keeps: the supported identifiers, in any letter
\* case, yield an instance of the variant named
C1_SupportedNamesFound ==
    (made.out # None /\ EffLookback(made.kwargs) > EffLag(made.kwargs)
        /\ Lower(made.raw_model) \in LowerVariantNames) =>
        /\ made.out.raised = "none"
        /\ made.out.value # None
        /\ Lower(made.out.value.BASE_MODEL_NAME) = Lower(made.raw_model)

\* C3: constructing a recurrent variant with training_lookback <= time_lag
\* fails with ValueError before any layer is allocated and before the common
\* model state is initialised; with training_lookback = time_lag + 1 it succeeds.
C3_LookbackChecked ==
    (made.out # None /\ Lower(made.raw_model) \in {Lower(S_RNN), Lower(S_GRU), Lower(S_LSTM)}) =>
        LET L == EffLag(made.kwargs)
            W == EffLookback(made.kwargs)
            v == made.out.value
        IN  /\ W <= L => /\ made.out.raised = "ValueError"
                         /\ v.modules = {}
                         /\ ~ v.inited
                         /\ v.kwargs = <<>>
                         /\ v.model_name = None
            /\ W = L + 1 => /\ made.out.raised = "none"
                            /\ v.cls \in Recurrent
                            /\ v.inited
                            /\ v.modules # {}
                            /\ v.kwargs.training_lookback = W
                            /\ v.kwargs.time_lag = L

C3_Witness ==
    /\ made.out # None
    /\ Lower(made.raw_model) = Lower(S_GRU)
    /\ EffLookback(made.kwargs) = EffLag(made.kwargs)
    /\ made.out.raised = "ValueError"

\* the windows of the most recent preprocess_data call, in order
WinAll == win.x_train \o win.x_test
WinRows == Len(made.data_handler.dataframe)
WinSize == IF made.out.value.cls = "MLP" THEN 2 ELSE made.out.value.kwargs.training_lookback

\* C4: preprocess_data on n rows produces exactly n - training_lookback
\* windows (n - 2 for the MLP), the first floor(0.8 * count) of them being the
\* training set and the rest the evaluation set.
C4_WindowCount ==
    win # None =>
        /\ win.err = "none"
        /\ Len(WinAll) = WinRows - WinSize
        /\ 5 * Len(win.x_train) <= 4 * Len(WinAll)
        /\ 4 * Len(WinAll) < 5 * (Len(win.x_train) + 1)

\* C4 as amended: the count and the split hold for n > training_lookback
\* (n > 2 for the MLP), window i starting at row i and the evaluation windows
\* following the training windows; with fewer rows there is no window and
\* preprocess_data raises.
C4_WindowCountWhenEnoughRows ==
    win # None =>
        IF WinRows > WinSize
        THEN /\ win.err = "none"
             /\ Len(WinAll) = WinRows - WinSize
             /\ 5 * Len(win.x_train) <= 4 * Len(WinAll)
             /\ 4 * Len(WinAll) < 5 * (Len(win.x_train) + 1)
             /\ \A i \in 1..Len(WinAll) :
                    WinAll[i] = SubSeq(made.data_handler.dataframe, i,
                                       i + (IF made.out.value.cls = "MLP" THEN 1 ELSE WinSize) - 1)
             /\ Len(win.y_train) = Len(win.x_train)
             /\ Len(win.y_test) = Len(win.x_test)
        ELSE /\ win.err = "IndexError"
             /\ WinAll = <<>>

C4_Witness ==
    /\ win # None
    /\ win.err = "none"
    /\ made.out.value.cls = "LSTM"
    /\ Len(win.x_train) = 3
    /\ Len(win.x_test) = 1

\* the targets preprocess_data pairs with the windows of WinAll
WinTargets == win.y_train \o win.y_test

\* C12: for every recurrent variant (RNN, GRU, LSTM) and all
\* training_lookback W > time_lag L >= 0, the number of values query_model
\* returns for one window of W rows equals the number of target values
\* preprocess_data pairs with that window, namely W - L, so output and target
\* are compared element for element by the loss.
C12_OutputMatchesTarget ==
    (win # None /\ win.err = "none" /\ made.out.value.cls \in Recurrent
        /\ made.out.value.kwargs.time_lag >= 0) =>
        LET self == made.out.value
            W == self.kwargs.training_lookback
            L == self.kwargs.time_lag
        IN  \A i \in 1..Len(WinAll) :
                /\ Len(WinAll[i]) = W
                /\ Len(WinTargets[i]) = W - L
                /\ query_len(self, WinAll[i]) = Len(WinTargets[i])
                /\ loss_err([torch |-> "L1Loss"], query_len(self, WinAll[i]),
                            Len(WinTargets[i])) = "none"

\* what the code does instead: the targets are the last W - L values, the
\* GRU returns W - L values, the RNN and the LSTM return all W
C12_OutputLengths ==
    (win # None /\ win.err = "none" /\ made.out.value.cls \in Recurrent
        /\ made.out.value.kwargs.time_lag >= 0) =>
        LET self == made.out.value
            W == self.kwargs.training_lookback
            L == self.kwargs.time_lag
        IN  \A i \in 1..Len(WinAll) :
                /\ Len(WinTargets[i]) = W - L
                /\ query_len(self, WinAll[i]) = IF self.cls = "GRU" THEN W - L ELSE W

(***************************************************************************)
(* Properties of training (SpecTrain).                                  *)
(***************************************************************************)

\* the numbers of completed epochs after which evaluations happened
EvalPoints == [i \in 1..Len(tr.evals) |-> tr.evals[i].after]

\* C8: train_model evaluates on every 20th epoch, counting completed epochs,
\* and once more after the final epoch, at no other point, and returns the
\* result of the evaluation made after the final epoch.
C8_EvalEvery20thCompleted ==
    (tr.pc = "done") =>
        /\ EvalPoints = [i \in 1..(tr.num_epochs \div 20) |-> 20 * i] \o <<tr.num_epochs>>
        /\ tr.result = tr.evals[Len(tr.evals)].value

\* C8 as amended: the evaluations inside the loop follow the epochs whose
\* zero-based index is a multiple of 20, that is after 1, 21, 41, ...
\* completed epochs; one more follows the final epoch and its result is returned.
C8_EvalAtIndexMultiplesOf20 ==
    (tr.pc = "done") =>
        /\ EvalPoints = [i \in 1..((tr.num_epochs + 19) \div 20) |-> 20 * (i - 1) + 1]
                        \o <<tr.num_epochs>>
        /\ tr.result = tr.evals[Len(tr.evals)].value
        /\ tr.result.params = tr.self.params

C8_Witness ==
    /\ tr.pc = "done"
    /\ tr.num_epochs = 41
    /\ EvalPoints = <<1, 21, 41, 41>>

SupportedLoss == {S_l1, S_mae, S_l2, S_mse, S_ce, S_crossentropy}
SupportedOptimizers == {S_adam, S_sgd}

\* C10: get_loss_fn and get_optimizer return None for a name outside the
\* supported sets (compared in lower case); a model with an unsupported loss
\* name is constructed all the same and train_model fails only later, inside
\* train_model or eval_model; with an unsupported optimizer train_model fails
\* at its start, before any window is cut and before any parameter update.
C10_UnsupportedNamesSurfaceLate ==
    /\ (tr.pc # "new" /\ Lower(tr.loss_fn_name) \notin SupportedLoss) =>
          /\ tr.self # None
          /\ tr.self.err = "none"
          /\ tr.self.loss_fn_name = tr.loss_fn_name
          /\ tr.at # "create"
          /\ tr.pc # "done"
          /\ tr.updates = 0
    /\ (tr.pc \notin {"new", "ready"}) =>
          (tr.loss_fn = None <=> Lower(tr.loss_fn_name) \notin SupportedLoss)
    /\ (tr.pc = "raised" /\ tr.loss_fn = None /\ tr.at \notin {"get_optimizer", "preprocess_data"}) =>
          /\ tr.err = "TypeError"
          /\ tr.at \in {"train_model", "eval_model"}
    /\ (tr.pc \notin {"new", "ready"} /\ Lower(tr.optimizer_name) \notin SupportedOptimizers) =>
          /\ tr.pc = "raised"
          /\ tr.err = "TypeError"
          /\ tr.at = "get_optimizer"
          /\ tr.data = None
          /\ tr.updates = 0
          /\ tr.self.params = 0

C10_Witness ==
    /\ tr.pc = "raised"
    /\ Lower(tr.loss_fn_name) \notin SupportedLoss
    /\ Lower(tr.optimizer_name) \in SupportedOptimizers
    /\ tr.err = "TypeError"
    /\ tr.at = "train_model"
    /\ tr.data # None

\* the running totals of train_model: the updates made are those of the
\* completed epochs plus the windows of the current epoch already visited,
\* every evaluation saw the parameters of a whole number of epochs, and a
\* finished loop has made num_epochs * T updates
C11_Totals ==
    tr.pc \in {"epoch", "final", "done"} =>
        LET T == Len(tr.data.x_train)
        IN  /\ tr.idx \in 1..(T + 1)
            /\ tr.updates = tr.epoch * T + (tr.idx - 1)
            /\ tr.self.params = tr.updates
            /\ \A i \in DOMAIN tr.evals : tr.evals[i].value.params = tr.evals[i].after * T
            /\ tr.pc \in {"final", "done"} => tr.updates = tr.num_epochs * T

\* one step of train_model: an update is made for the window at idx, which
\* then moves on by one, and records no evaluation; an evaluation is made at
\* the end of an epoch or after the loop and leaves the parameters alone
C11_Step ==
    /\ tr'.updates # tr.updates =>
            /\ tr.pc = "epoch"
            /\ tr.idx <= Len(tr.data.x_train)
            /\ tr'.updates = tr.updates + 1
            /\ tr'.self.params = tr.self.params + 1
            /\ tr'.idx = tr.idx + 1
            /\ tr'.epoch = tr.epoch
            /\ tr'.evals = tr.evals
    /\ tr'.evals # tr.evals =>
            /\ tr'.self.params = tr.self.params
            /\ tr'.updates = tr.updates
            /\ \/ tr.pc = "final"
               \/ tr.pc = "epoch" /\ tr.idx = Len(tr.data.x_train) + 1

\* C11: train_model with E epochs over a training set of T windows performs
\* exactly E * T parameter updates: in each epoch every training window is
\* visited exactly once, in temporal order, with one forward pass, one loss
\* and one update per window; evaluation passes occur only between epochs or
\* after the last one and perform no parameter update.
C11_EpochsTimesWindowsUpdates == [][C11_Step /\ C11_Totals']_vars

\* a run of 21 epochs or more over three windows that returned, with the
\* evaluations after epochs 1 and 21 and after the loop
C11_Witness ==
    /\ tr # None
    /\ tr.pc = "done"
    /\ tr.num_epochs >= 21
    /\ Len(tr.data.x_train) = 3
    /\ Len(tr.evals) >= 3
    /\ tr.updates = 3 * tr.num_epochs

(***************************************************************************)
(* Persistence: BaseNN.save / load, save_trained_model, get_trained_model. *)
(***************************************************************************)

\* the provenance record the dataset collaborator keeps for each dataset
DatasetAttribs ==
    [d1 |-> [txn_id |-> "dt1", user_id |-> "du1"],
     d2 |-> [txn_id |-> "dt2", user_id |-> "du2"]]

\* datasets.load_dataset(name): the handler and the dataset's provenance, or
\* the collaborator's error when it cannot resolve the name
load_dataset(ds_name) ==
    IF ds_name \in datasets
    THEN [err |-> "none", handler |-> Handler(ds_name, 3), attribs |-> DatasetAttribs[ds_name]]
    ELSE [err |-> "UpstreamError", handler |-> None, attribs |-> None]

\* self.state_dict(): the parameter tensors, keyed by module and sized by the
\* layer dimensions
state_dict(self) ==
    [modules |-> self.modules,
     dims |-> <<self.input_size, self.kwargs.hidden_dim, self.kwargs.num_hidden_layers>>,
     w |-> self.params]

\* BaseNN.save: the attributes it returns (the write of state_dict() to
\* save_location is the storage update of SaveStore)
save(self) == Merge([BASE_MODEL_NAME |-> self.BASE_MODEL_NAME], self.kwargs)

\* BaseNN.load: torch.load needs the file, load_state_dict the same keys and sizes
load(self, location) ==
    LET blob == storage[location]
    IN  IF blob = None THEN [err |-> "FileNotFoundError", value |-> self]
        ELSE IF blob.modules # self.modules \/ blob.dims # state_dict(self).dims
        THEN [err |-> "RuntimeError", value |-> self]
        ELSE [err |-> "none", value |-> [self EXCEPT !.params = blob.w]]

\* the record save_trained_model sets in the ledger
ledger_record(model, txn_id, user_id, dataset_attribs) ==
    LET a1 == Pop(save(model), "data_handler")
        model_attribs == Merge(Pop(a1, "BASE_MODEL_NAME"), [raw_model |-> a1.BASE_MODEL_NAME])
    IN  Merge(Merge([save_location |-> save_location(model.model_name)], model_attribs),
              [txn_id |-> txn_id, user_id |-> user_id,
               ds_name |-> model.data_handler.dataset_name,
               ds_txn_id |-> dataset_attribs.txn_id,
               ds_user_id |-> dataset_attribs.user_id])

\* the outcome of a get_trained_model call
GetOutcome(model_name, err, calls, model, model_attribs, dataset_attribs) ==
    [op |-> "get", name |-> model_name, err |-> err, calls |-> calls, model |-> model,
     model_attribs |-> model_attribs, dataset_attribs |-> dataset_attribs]

\* the part of get_trained_model after the record was found
get_found(model_name, found) ==
    LET model_attribs == IF "model_name" \in DOMAIN found THEN Pop(found, "model_name")
                         ELSE found
        ds == load_dataset(model_attribs.ds_name)
        out == create(model_attribs.raw_model, model_name, ds.handler,
                      model_attribs.loss_fn_name,
                      Pop(Pop(model_attribs, "raw_model"), "loss_fn_name"))
        loaded == load(out.value, model_attribs.save_location)
    IN  IF ds.err # "none"
        THEN GetOutcome(model_name, ds.err, <<"database.get", "load_dataset">>,
                        None, None, None)
        ELSE IF out.raised # "none"
        THEN GetOutcome(model_name, out.raised, <<"database.get", "load_dataset", "create">>,
                        None, None, None)
        ELSE IF out.value = None
        THEN GetOutcome(model_name, "AttributeError",
                        <<"database.get", "load_dataset", "create">>, None, None, None)
        ELSE IF loaded.err # "none"
        THEN GetOutcome(model_name, loaded.err,
                        <<"database.get", "load_dataset", "create", "load">>,
                        None, None, None)
        ELSE GetOutcome(model_name, "none",
                        <<"database.get", "load_dataset", "create", "load">>,
                        loaded.value, model_attribs, ds.attribs)

\* a variant of get_trained_model without the test for a missing record
get_trained_model_Unchecked(model_name) ==
    IF database[save_key(model_name)] = None
    THEN GetOutcome(model_name, "TypeError", <<"database.get">>, None, None, None)
    ELSE get_found(model_name, database[save_key(model_name)])

\* a variant of get_trained_model that passes the record on with its model_name
get_trained_model_NoPop(model_name) ==
    LET found == database[save_key(model_name)]
        ds == load_dataset(found.ds_name)
        out == create(found.raw_model, model_name, ds.handler, found.loss_fn_name,
                      Pop(Pop(found, "raw_model"), "loss_fn_name"))
    IN  IF found = None
        THEN GetOutcome(model_name, "NotFound", <<"database.get">>, None, None, None)
        ELSE IF ds.err # "none"
        THEN GetOutcome(model_name, ds.err, <<"database.get", "load_dataset">>,
                        None, None, None)
        ELSE IF out.raised # "none"
        THEN GetOutcome(model_name, out.raised, <<"database.get", "load_dataset", "create">>,
                        None, None, None)
        ELSE GetOutcome(model_name, "none",
                        <<"database.get", "load_dataset", "create", "load">>,
                        load(out.value, found.save_location).value, found, ds.attribs)

\* get_trained_model
get_trained_model(model_name) ==
    IF database[save_key(model_name)] = None
    THEN GetOutcome(model_name, "NotFound", <<"database.get">>, None, None, None)
    ELSE get_found(model_name, database[save_key(model_name)])

(***************************************************************************)
(* Persistence specifications.  Each caller holds the arguments of its     *)
(* save_trained_model calls: a trained model, a transaction and a user.    *)
(* A save takes three steps, one per call to the outside: the parameter    *)
(* write, the dataset lookup, the ledger write.  In Spec the calls follow  *)
(* one another; in SpecConc the callers' saves interleave.                 *)
(***************************************************************************)
PersistKwargSets ==
    {[hidden_dim |-> 1, num_hidden_layers |-> 1],
     [hidden_dim |-> 1, num_hidden_layers |-> 1, drop_prob |-> 5],
     [hidden_dim |-> 2, num_hidden_layers |-> 1, time_lag |-> 0, training_lookback |-> 3]}

\* the arguments caller c may save: a model made by create and trained since;
\* each caller has its own transaction, user and trained parameter values
JobsOf(c) ==
    { [model |-> [create(raw_model, model_name, Handler(ds_name, 3), S_mae, kwargs).value
                    EXCEPT !.params = c],
       txn_id |-> IF c = 1 THEN "t1" ELSE "t2",
       user_id |-> IF c = 1 THEN "u1" ELSE "u2"] :
        raw_model \in VariantNames,
        model_name \in IF c = 1 THEN {"m1"} ELSE ModelNames,
        ds_name \in DatasetNames,
        kwargs \in PersistKwargSets }

InitSave ==
    /\ IdlePersist
    /\ datasets \in {{"d1"}, {"d1", "d2"}}
    /\ job \in [Callers -> UNION {JobsOf(c) : c \in Callers}]
    /\ \A c \in Callers : job[c] \in JobsOf(c)
    /\ made = None
    /\ win = None
    /\ tr = None

AllIdle == \A c \in Callers : pc[c] = "idle"

NameOf(c) == job[c].model.model_name

\* a variant of SaveStore in which the record is set in the ledger together
\* with the parameter write, before the dataset is resolved
SaveStore_RecordFirst(c) ==
    /\ pc[c] = "idle"
    /\ storage' = [storage EXCEPT ![save_location(NameOf(c))] = state_dict(job[c].model)]
    /\ database' = [database EXCEPT ![save_key(NameOf(c))] =
                        ledger_record(job[c].model, job[c].txn_id, job[c].user_id,
                                      [txn_id |-> "", user_id |-> ""])]
    /\ wroteParams' = [wroteParams EXCEPT ![NameOf(c)] = c]
    /\ wroteLedger' = [wroteLedger EXCEPT ![NameOf(c)] = c]
    /\ pc' = [pc EXCEPT ![c] = "stored"]
    /\ ret' = [op |-> "save", by |-> c, err |-> "pending"]
    /\ UNCHANGED <<made, win, tr, datasets, job>>

\* save_trained_model up to model.save: the parameters are written
SaveStore(c) ==
    /\ pc[c] = "idle"
    /\ storage' = [storage EXCEPT ![save_location(NameOf(c))] = state_dict(job[c].model)]
    /\ wroteParams' = [wroteParams EXCEPT ![NameOf(c)] = c]
    /\ pc' = [pc EXCEPT ![c] = "stored"]
    /\ ret' = [op |-> "save", by |-> c, err |-> "pending"]
    /\ UNCHANGED <<made, win, tr, database, datasets, job, wroteLedger>>

\* save_trained_model's dataset lookup: the save ends here if it fails
SaveResolve(c) ==
    /\ pc[c] = "stored"
    /\ LET ds == load_dataset(job[c].model.data_handler.dataset_name)
       IN  IF ds.err # "none"
           THEN /\ pc' = [pc EXCEPT ![c] = "idle"]
                /\ ret' = [op |-> "save", by |-> c, err |-> ds.err]
           ELSE /\ pc' = [pc EXCEPT ![c] = "resolved"]
                /\ ret' = [op |-> "save", by |-> c, err |-> "pending"]
    /\ UNCHANGED <<made, win, tr, database, storage, datasets, job, wroteParams, wroteLedger>>

\* save_trained_model's last statement: the record is set in the ledger
SaveSet(c) ==
    /\ pc[c] = "resolved"
    /\ database' = [database EXCEPT ![save_key(NameOf(c))] =
                        ledger_record(job[c].model, job[c].txn_id, job[c].user_id,
                            load_dataset(job[c].model.data_handler.dataset_name).attribs)]
    /\ wroteLedger' = [wroteLedger EXCEPT ![NameOf(c)] = c]
    /\ pc' = [pc EXCEPT ![c] = "idle"]
    /\ ret' = [op |-> "save", by |-> c, err |-> "none"]
    /\ UNCHANGED <<made, win, tr, storage, datasets, job, wroteParams>>

\* a caller invokes get_trained_model
GetTrainedModel(model_name) ==
    /\ ret' = get_trained_model(model_name)
    /\ UNCHANGED <<made, win, tr, database, storage, datasets, pc, job, wroteParams, wroteLedger>>

\* a save_trained_model call starts when no other call is running
SaveStoreAlone(c) == AllIdle /\ SaveStore(c)

\* a get_trained_model call runs when no other call is running
GetTrainedModelAlone(model_name) == AllIdle /\ GetTrainedModel(model_name)

Next ==
    \/ \E c \in Callers : SaveStoreAlone(c) \/ SaveResolve(c) \/ SaveSet(c)
    \/ \E model_name \in ModelNames : GetTrainedModelAlone(model_name)

Spec == InitSave /\ [][Next]_vars

NextConc ==
    \/ \E c \in Callers : SaveStore(c) \/ SaveResolve(c) \/ SaveSet(c)
    \/ \E model_name \in ModelNames : GetTrainedModel(model_name)

SpecConc == InitSave /\ [][NextConc]_vars

(***************************************************************************)
(* Properties of persistence (Spec, SpecConc).                          *)
(***************************************************************************)

\* the hyperparameters a variant is built with, read off an instance
Hyper(model) ==
    [hidden_dim |-> model.kwargs.hidden_dim,
     num_hidden_layers |-> model.kwargs.num_hidden_layers,
     loss_fn_name |-> model.loss_fn_name,
     time_lag |-> Get(model.kwargs, "time_lag", 0),
     training_lookback |-> Get(model.kwargs, "training_lookback", 0)]

\* the most recent call was get_trained_model(n), and the most recent save
\* under n ran to its end with no other save under n since
GotAfterSave ==
    /\ ret # None
    /\ ret.op = "get"
    /\ wroteLedger[ret.name] # 0
    /\ wroteParams[ret.name] = wroteLedger[ret.name]

\* C2: save_trained_model followed by get_trained_model of the same name
\* succeeds and returns an instance of the same architecture, built with the
\* same hyperparameters (drop_prob included) and holding the saved
\* parameters, with the txn_id and user_id of the save.
C2_SaveThenGetRoundTrip ==
    GotAfterSave =>
        LET j == job[wroteLedger[ret.name]]
        IN  /\ ret.err = "none"
            /\ ret.model.cls = j.model.cls
            /\ ret.model.BASE_MODEL_NAME = j.model.BASE_MODEL_NAME
            /\ Hyper(ret.model) = Hyper(j.model)
            /\ ret.model.dropout = j.model.dropout
            /\ ret.model.params = j.model.params
            /\ ret.model_attribs.txn_id = j.txn_id
            /\ ret.model_attribs.user_id = j.user_id

\* the part of C2 the code keeps: everything but drop_prob comes back
C2_RoundTripButDropout ==
    GotAfterSave =>
        LET j == job[wroteLedger[ret.name]]
        IN  /\ ret.err = "none"
            /\ ret.model.cls = j.model.cls
            /\ ret.model.BASE_MODEL_NAME = j.model.BASE_MODEL_NAME
            /\ Hyper(ret.model) = Hyper(j.model)
            /\ ret.model.dropout = 0
            /\ ret.model.params = j.model.params
            /\ ret.model_attribs.txn_id = j.txn_id
            /\ ret.model_attribs.user_id = j.user_id

\* C5: get_trained_model of a name without a ledger record fails with the
\* not-found error after the ledger read alone: no dataset is loaded, no
\* model constructed, no parameters read, and ledger and storage stay as
\* they were.
C5_MissingRecordNotFound ==
    [][(ret'.op = "get" /\ database["<MODEL>" \o ret'.name] = None) =>
          /\ ret'.err = "NotFound"
          /\ ret'.calls = <<"database.get">>
          /\ ret'.model = None
          /\ database' = database
          /\ storage' = storage]_vars

C5_Witness ==
    /\ ret # None
    /\ ret.op = "get"
    /\ ret.name = "m2"
    /\ ret.err = "NotFound"
    /\ database["<MODEL>m1"] # None
    /\ storage["models/m2"] # None

\* C6: after completed saves the ledger holds, per model name, the record of
\* the most recent completed save under that name (none if there was none),
\* and the parameters stored under the name are those of that save; saving
\* under another name changes neither.
C6_LastSaveKept ==
    \A n \in ModelNames :
        IF wroteLedger[n] = 0
        THEN database["<MODEL>" \o n] = None
        ELSE LET j == job[wroteLedger[n]]
                 rec == database["<MODEL>" \o n]
             IN  /\ j.model.model_name = n
                 /\ rec # None
                 /\ rec.txn_id = j.txn_id
                 /\ rec.user_id = j.user_id
                 /\ rec.raw_model = j.model.BASE_MODEL_NAME
                 /\ rec.hidden_dim = j.model.kwargs.hidden_dim
                 /\ rec.ds_name = j.model.data_handler.dataset_name
                 /\ rec.save_location = "models/" \o n
                 /\ (AllIdle /\ wroteParams[n] = wroteLedger[n]) =>
                        storage["models/" \o n] = state_dict(j.model)

C6_Witness ==
    /\ AllIdle
    /\ NameOf(1) = "m1"
    /\ NameOf(2) = "m1"
    /\ job[1].model.data_handler.dataset_name \in datasets
    /\ wroteLedger["m1"] = 2
    /\ wroteParams["m1"] = 2
    /\ database["<MODEL>m1"].txn_id = "t2"
    /\ storage["models/m1"].w = 2

\* both callers save under one name and neither save can fail
SameNameSaves ==
    /\ NameOf(1) = NameOf(2)
    /\ \A c \in Callers : job[c].model.data_handler.dataset_name \in datasets

\* C7: when two callers save under the same name concurrently, then once
\* both have finished the ledger record and the stored parameters are those
\* of the same caller, the one that wrote last.
C7_SameCallerWinsBoth ==
    (AllIdle /\ SameNameSaves /\ wroteLedger[NameOf(1)] # 0) =>
        LET n == NameOf(1)
            j == job[wroteLedger[n]]
        IN  /\ database["<MODEL>" \o n].txn_id = j.txn_id
            /\ storage["models/" \o n] = state_dict(j.model)

\* C7 as amended: the last write wins for the ledger record and for the
\* storage location separately; the record is that of the caller whose
\* ledger write came last, the parameters those of the caller whose
\* parameter write came last.
C7_LastWriteWinsPerStore ==
    \A n \in ModelNames :
        /\ wroteLedger[n] # 0 =>
              /\ database["<MODEL>" \o n] # None
              /\ database["<MODEL>" \o n].txn_id = job[wroteLedger[n]].txn_id
              /\ database["<MODEL>" \o n].raw_model = job[wroteLedger[n]].model.BASE_MODEL_NAME
        /\ wroteLedger[n] = 0 => database["<MODEL>" \o n] = None
        /\ wroteParams[n] # 0 =>
              storage["models/" \o n] = state_dict(job[wroteParams[n]].model)
        /\ wroteParams[n] = 0 => storage["models/" \o n] = None

C7_Witness ==
    /\ AllIdle
    /\ SameNameSaves
    /\ wroteLedger[NameOf(1)] = 1
    /\ wroteParams[NameOf(1)] = 2
    /\ database["<MODEL>m1"].txn_id = "t1"
    /\ storage["models/m1"].w = 2

\* C9: the record save_trained_model stores never contains a model_name
\* entry, nor the dataset handle, so that get_trained_model never passes the
\* name to the constructor twice.
C9_RecordHasNoModelName ==
    /\ \A n \in ModelNames :
          database["<MODEL>" \o n] # None =>
              /\ "model_name" \notin DOMAIN database["<MODEL>" \o n]
              /\ "data_handler" \notin DOMAIN database["<MODEL>" \o n]
    /\ (ret # None /\ ret.op = "get") => ret.err # "TypeError"

\* C9 as amended: the stored record never contains the dataset handle but
\* does contain model_name, equal to the name of its key; get_trained_model
\* removes that entry from the record it read before it calls create, so the
\* name is never passed to the constructor twice.
C9_ModelNamePoppedOnGet ==
    /\ \A n \in ModelNames :
          database["<MODEL>" \o n] # None =>
              /\ "data_handler" \notin DOMAIN database["<MODEL>" \o n]
              /\ "model_name" \in DOMAIN database["<MODEL>" \o n]
              /\ database["<MODEL>" \o n].model_name = n
    /\ (ret # None /\ ret.op = "get") =>
          /\ ret.err # "TypeError"
          /\ ret.err = "none" => "model_name" \notin DOMAIN ret.model_attribs

C9_Witness ==
    /\ ret # None
    /\ ret.op = "get"
    /\ ret.err = "none"
    /\ database["<MODEL>" \o ret.name].model_name = ret.name
    /\ ret.model.model_name = ret.name

\* every record of the ledger names the location of its model, and the
\* parameters at that location have been written; so have those of a save
\* that is past its first step; the parameters at a location are those of
\* the last save that wrote there
C13_RecordsPointAtParams ==
    /\ \A n \in ModelNames :
            database[save_key(n)] # None =>
                /\ database[save_key(n)].save_location = save_location(n)
                /\ storage[database[save_key(n)].save_location] # None
                /\ wroteParams[n] # 0
    /\ \A c \in Callers :
            pc[c] # "idle" =>
                /\ storage[save_location(NameOf(c))] # None
                /\ wroteParams[NameOf(c)] # 0
    /\ \A n \in ModelNames :
            wroteParams[n] # 0 =>
                /\ NameOf(wroteParams[n]) = n
                /\ storage[save_location(n)] = state_dict(job[wroteParams[n]].model)

\* one step of a save: the ledger changes only in the last step of a save
\* whose parameters are written and whose dataset resolved, and then in the
\* one record of that model; the parameter write and the failed dataset
\* lookup leave the ledger as it was
C13_Step ==
    /\ database' # database =>
            \E c \in Callers :
                /\ pc[c] = "resolved"
                /\ pc'[c] = "idle"
                /\ ret' = [op |-> "save", by |-> c, err |-> "none"]
                /\ job[c].model.data_handler.dataset_name \in datasets
                /\ storage[save_location(NameOf(c))] # None
                /\ wroteParams[NameOf(c)] # 0
                /\ storage' = storage
                /\ \A k \in Keys : k # save_key(NameOf(c)) => database'[k] = database[k]
    /\ storage' # storage => database' = database
    /\ (ret'.op = "save" /\ ret'.err = "UpstreamError") =>
            /\ database' = database
            /\ wroteLedger' = wroteLedger
            /\ pc[ret'.by] = "stored"
            /\ pc'[ret'.by] = "idle"
            /\ storage' = storage
            /\ storage[save_location(NameOf(ret'.by))] # None

\* C13: save_trained_model writes the parameters to "models/" + model_name
\* before it resolves dataset provenance and sets the ledger record, the
\* ledger write being its last step: a save aborted by a dataset-collaborator
\* failure leaves the ledger unchanged (no new or modified record), and in
\* every reachable state each ledger record's save_location refers to
\* parameters that have already been written.
C13_ParamsBeforeLedger == [][C13_Step /\ C13_RecordsPointAtParams']_vars

\* caller 2's save of m1 was aborted by the dataset lookup after caller 1's
\* save of m1 had ended: the parameters are caller 2's, the record caller 1's
C13_Witness ==
    /\ AllIdle
    /\ ret # None
    /\ ret.op = "save"
    /\ ret.by = 2
    /\ ret.err = "UpstreamError"
    /\ NameOf(2) = "m1"
    /\ wroteParams["m1"] = 2
    /\ wroteLedger["m1"] = 1
    /\ database[save_key("m1")].txn_id = "t1"
    /\ storage[save_location("m1")] = state_dict(job[2].model)

====
